---- MODULE Spec2Model ----
(***************************************************************************)
(* Model of the recommendation pipeline of adhunik-kitaab                  *)
(* (src/app/recommender.py, src/app/google_books.py, src/app/main.py).     *)
(*                                                                         *)
(* Strings that the code inspects character by character (genres, authors, *)
(* categories) are sequences of one-character strings, so that lower() and *)
(* the substring test `g in c.lower()` are computed, not assumed.          *)
(* Ratings and scores are floats that are multiples of 0.5 in the code;    *)
(* they are kept here as integers in units of 0.5 (1.0 is 2, 2.5 is 5).    *)
(***************************************************************************)
EXTENDS Integers, Sequences, FiniteSets, Bags, TLC

\* ------------------------------------------------------------------------
\* Bounds of the model
\* ------------------------------------------------------------------------
MaxRatings == 2

MaxItems == 1

MaxLimit == 2

\* the documents of a profile scan and the top_n values tried on them
MaxDocs == 3

MaxTopN == 2
MaxTokens == 2
MaxResets == 2
MaxClock == 2

\* ------------------------------------------------------------------------
\* Program constants (scores in units of 0.5)
\* ------------------------------------------------------------------------
TopN == 3

BaseScore == 2

GenreBoost == 4

AuthorBoost == 5

NoveltyBoost == 1

GenreMaxResults == 10

FallbackMaxResults == 15

\* Python's None, as the value of a missing "id" after item.get("id")
None == "<None>"

\* ------------------------------------------------------------------------
\* Strings
\* ------------------------------------------------------------------------
UpperChars == <<"A","B","C","D","E","F","G","H","I","J","K","L","M",
                "N","O","P","Q","R","S","T","U","V","W","X","Y","Z">>

LowerChars == <<"a","b","c","d","e","f","g","h","i","j","k","l","m",
                "n","o","p","q","r","s","t","u","v","w","x","y","z">>

LowerChar(c) ==
    IF \E i \in 1..26 : UpperChars[i] = c
    THEN LowerChars[CHOOSE i \in 1..26 : UpperChars[i] = c]
    ELSE c

\* str.lower()
Lower(s) == [i \in 1..Len(s) |-> LowerChar(s[i])]

\* Python's `g in c` on strings
IsSubstring(g, c) ==
    \E i \in 0..(Len(c) - Len(g)) : SubSeq(c, i + 1, i + Len(g)) = g

Range(s) == {s[i] : i \in 1..Len(s)}

\* the strings of this model
sFic == <<"f","i","c">>

sFicCap == <<"F","i","c">>

sSciFic == <<"S","c","i","-","F","I","C">>

sArt == <<"A","r","t">>

sJane == <<"J","a","n","e">>

sRoe == <<"R","o","e">>

sFiction == <<"f","i","c","t","i","o","n">>

sNonfiction == <<"n","o","n","f","i","c","t","i","o","n">>

\* ------------------------------------------------------------------------
\* The rating store: the documents add_rating writes
\* ------------------------------------------------------------------------
RecA1 == [user_id |-> "u1", book_id |-> "A1", rating |-> 10,
          categories |-> <<sFic>>, authors |-> <<sJane>>]

RecB2 == [user_id |-> "u1", book_id |-> "B2", rating |-> 4,
          categories |-> <<sArt, sFicCap>>, authors |-> <<>>]

\* a document without a metadata snapshot
RecC3 == [user_id |-> "u1", book_id |-> "C3", rating |-> 6]

RecOther == [user_id |-> "u2", book_id |-> "A1", rating |-> 8,
             categories |-> <<sArt>>, authors |-> <<sRoe>>]

RecordUniverse == {RecA1, RecB2, RecC3, RecOther}

UniquePairs(col) ==
    \A i, j \in 1..Len(col) :
        (col[i].user_id = col[j].user_id /\ col[i].book_id = col[j].book_id)
            => i = j

Stores ==
    {col \in UNION {[1..n -> RecordUniverse] : n \in 0..MaxRatings} :
        UniquePairs(col)}

\* ratings_col.find({"user_id": user_id}), in the collection's order
Find(col, uid) == SelectSeq(col, LAMBDA r : r.user_id = uid)

\* ------------------------------------------------------------------------
\* collections.Counter: the keys in insertion order, each with its weight
\* ------------------------------------------------------------------------
HasKey(counter, k) == \E i \in 1..Len(counter) : counter[i].key = k

\* counter[k] += w
CounterAdd(counter, k, w) ==
    IF HasKey(counter, k)
    THEN [i \in 1..Len(counter) |->
            IF counter[i].key = k
            THEN [key |-> k, weight |-> counter[i].weight + w]
            ELSE counter[i]]
    ELSE Append(counter, [key |-> k, weight |-> w])

RECURSIVE CounterAddAll(_, _, _)
\* for g in keys: counter[g.lower()] += w
CounterAddAll(counter, keys, w) ==
    IF keys = <<>> THEN counter
    ELSE CounterAddAll(CounterAdd(counter, Lower(Head(keys)), w), Tail(keys), w)

RECURSIVE InsertByWeight_TiesFirst(_, _)
\* InsertByWeight with e placed before the entries of equal weight
InsertByWeight_TiesFirst(sorted, e) ==
    IF sorted = <<>> THEN <<e>>
    ELSE IF Head(sorted).weight > e.weight
         THEN <<Head(sorted)>> \o InsertByWeight_TiesFirst(Tail(sorted), e)
         ELSE <<e>> \o sorted

RECURSIVE InsertByWeight(_, _)

\* e placed after every entry that weighs at least as much (a stable sort)
InsertByWeight(sorted, e) ==
    IF sorted = <<>> THEN <<e>>
    ELSE IF Head(sorted).weight >= e.weight
         THEN <<Head(sorted)>> \o InsertByWeight(Tail(sorted), e)
         ELSE <<e>> \o sorted

RECURSIVE SortByWeightDesc(_)
SortByWeightDesc(counter) ==
    IF counter = <<>> THEN <<>>
    ELSE InsertByWeight(SortByWeightDesc(SubSeq(counter, 1, Len(counter) - 1)),
                        counter[Len(counter)])

Take(s, n) == SubSeq(s, 1, IF n < Len(s) THEN n ELSE Len(s))

\* Counter.most_common(n): heapq.nlargest, the n heaviest, ties in insertion order
MostCommon(counter, n) ==
    LET top == Take(SortByWeightDesc(counter), n)
    IN  [i \in 1..Len(top) |-> top[i].key]

\* r.get("rating", 0)
RatingOf(r) == IF "rating" \in DOMAIN r THEN r.rating ELSE 0

\* "categories" in r and r["categories"]
HasMeta(r, field) == field \in DOMAIN r /\ r[field] # <<>>

RECURSIVE GenreCounts(_)
\* the fold of lines 13-17 over the cursor's documents
GenreCounts(docs) ==
    IF docs = <<>> THEN <<>>
    ELSE LET r == docs[Len(docs)]
             before == GenreCounts(SubSeq(docs, 1, Len(docs) - 1))
         IN  IF HasMeta(r, "categories")
             THEN CounterAddAll(before, r.categories, RatingOf(r))
             ELSE before

RECURSIVE AuthorCounts(_)
\* the fold of lines 13, 18-20 over the cursor's documents
AuthorCounts(docs) ==
    IF docs = <<>> THEN <<>>
    ELSE LET r == docs[Len(docs)]
             before == AuthorCounts(SubSeq(docs, 1, Len(docs) - 1))
         IN  IF HasMeta(r, "authors")
             THEN CounterAddAll(before, r.authors, RatingOf(r))
             ELSE before

\* get_user_top_genres_and_authors, given the documents the cursor yields
TopGenres(docs, top_n) == MostCommon(GenreCounts(docs), top_n)

TopAuthors(docs, top_n) == MostCommon(AuthorCounts(docs), top_n)

\* ------------------------------------------------------------------------
\* The search provider (Google Books) and search_books_by_keywords
\* ------------------------------------------------------------------------
\* dict.get(k, default)
Get(d, k, default) == IF k \in DOMAIN d THEN d[k] ELSE default

\* volumes as the provider's JSON gives them; keys may be missing
ItemA1 == [id |-> "A1",
           volumeInfo |-> [title |-> "t1", categories |-> <<sFicCap>>,
                           authors |-> <<sJane>>]]

ItemA1Bare == [id |-> "A1", volumeInfo |-> [title |-> "t2"]]

ItemB2 == [id |-> "B2",
           volumeInfo |-> [title |-> "t3", categories |-> <<sSciFic, sArt>>,
                           authors |-> <<sRoe>>]]

ItemNoId == [volumeInfo |-> [title |-> "t4", categories |-> <<sFicCap>>,
                             authors |-> <<sJane>>]]

ItemEmptyId == [id |-> ""]

Catalog == <<ItemA1, ItemA1Bare, ItemB2, ItemNoId, ItemEmptyId>>

\* the "items" arrays the provider may answer with
ItemLists ==
    {<<>>} \cup
    {SubSeq(Catalog, a, b) :
        a \in 1..Len(Catalog), b \in 1..Len(Catalog)}

\* what one HTTP round trip can end in:
\*   json       a 2xx answer whose body is a JSON object with "items"
\*   no_items   a 2xx answer whose JSON object has no "items" key
\*   http_error httpx.HTTPError: timeout, transport error, 4xx/5xx status
\*   bad_body   a 2xx answer whose body is not JSON: r.json() raises ValueError
Responses ==
    {[kind |-> "json", items |-> l] : l \in {x \in ItemLists : Len(x) <= MaxItems}} \cup
    {[kind |-> "no_items"], [kind |-> "http_error"], [kind |-> "bad_body"]}

normalize_book(item) ==
    LET v == Get(item, "volumeInfo", <<>>)
    IN  [book_id    |-> Get(item, "id", None),
         title      |-> Get(v, "title", None),
         authors    |-> Get(v, "authors", <<>>),
         categories |-> Get(v, "categories", <<>>)]

\* the round trip raised an error inside the try block
Failed(resp) == resp.kind \in {"http_error", "bad_body"}

\* the errors `except httpx.HTTPError` catches
Caught(resp) == resp.kind = "http_error"

\* the call raises into its caller
Raises(resp) == Failed(resp) /\ ~Caught(resp)

\* the list search_books_by_keywords returns when it does not raise
search_books_by_keywords(resp) ==
    IF Caught(resp) THEN <<>>
    ELSE LET items == Get(resp, "items", <<>>)
         IN  [i \in 1..Len(items) |-> normalize_book(items[i])]

\* search_books_by_genre / search_books_by_author: the query they send
search_books_by_genre(genre, max_results) ==
    [q |-> <<"subject:">> \o genre, max_results |-> max_results]

search_books_by_author(author, max_results) ==
    [q |-> <<"inauthor:">> \o author, max_results |-> max_results]

\* ------------------------------------------------------------------------
\* recommend_for_user: the pure parts
\* ------------------------------------------------------------------------
\* BuildTasks without the `if not tasks` test: the fallback queries always added
BuildTasks_FallbackAlways(tg, ta) ==
    [i \in 1..Len(tg) |-> search_books_by_genre(tg[i], GenreMaxResults)] \o
    [i \in 1..Len(ta) |-> search_books_by_author(ta[i], GenreMaxResults)] \o
    <<search_books_by_genre(sFiction, FallbackMaxResults),
      search_books_by_genre(sNonfiction, FallbackMaxResults)>>

\* lines 30-38: the queries of one request, in submission order
BuildTasks(tg, ta) ==
    LET personal ==
            [i \in 1..Len(tg) |-> search_books_by_genre(tg[i], GenreMaxResults)] \o
            [i \in 1..Len(ta) |-> search_books_by_author(ta[i], GenreMaxResults)]
    IN  IF personal = <<>>
        THEN <<search_books_by_genre(sFiction, FallbackMaxResults),
               search_books_by_genre(sNonfiction, FallbackMaxResults)>>
        ELSE personal

RECURSIVE Flatten(_)
\* line 41: [b for sub in results for b in sub]
Flatten(results) ==
    IF results = <<>> THEN <<>>
    ELSE Head(results) \o Flatten(Tail(results))

\* Falsy as `bid is None`: the empty string passes
Falsy_NoneOnly(bid) == bid = None

\* line 52: `not bid`
Falsy(bid) == bid = None \/ bid = ""

\* any(g in (c or "").lower() for c in names)
MatchesAny(g, names) ==
    \E j \in 1..Len(names) : IsSubstring(g, Lower(names[j]))

\* Score with the boosts capped: one boost however many entries match
Score_Capped(b, tg, ta, rated) ==
    BaseScore
    + (IF \E i \in 1..Len(tg) : MatchesAny(tg[i], b.categories)
       THEN GenreBoost ELSE 0)
    + (IF \E i \in 1..Len(ta) : MatchesAny(ta[i], b.authors)
       THEN AuthorBoost ELSE 0)
    + (IF b.book_id \notin rated THEN NoveltyBoost ELSE 0)

\* lines 54-65
Score(b, tg, ta, rated) ==
    BaseScore
    + GenreBoost * Cardinality({i \in 1..Len(tg) : MatchesAny(tg[i], b.categories)})
    + AuthorBoost * Cardinality({i \in 1..Len(ta) : MatchesAny(ta[i], b.authors)})
    + (IF b.book_id \notin rated THEN NoveltyBoost ELSE 0)

\* the dict `scored` as its entries in insertion order
InScored(scored, bid) == \E i \in 1..Len(scored) : scored[i].book_id = bid

ScoreOf(scored, bid) ==
    scored[CHOOSE i \in 1..Len(scored) : scored[i].book_id = bid].score

\* Keeps without the comparison: the last occurrence wins
Keeps_LastWins(scored, bid, score) == TRUE

\* Keeps with >= for >: a later occurrence of equal score replaces the kept one
Keeps_OnTie(scored, bid, score) ==
    ~InScored(scored, bid) \/ score >= ScoreOf(scored, bid)

\* line 67: the condition under which an occurrence is written to the dict
Keeps(scored, bid, score) ==
    ~InScored(scored, bid) \/ score > ScoreOf(scored, bid)

\* line 68: scored[bid] = {...}; an existing key keeps its position
Put(scored, bid, score, b) ==
    LET e == [book_id |-> bid, score |-> score, book |-> b]
    IN  IF InScored(scored, bid)
        THEN [i \in 1..Len(scored) |->
                IF scored[i].book_id = bid THEN e ELSE scored[i]]
        ELSE Append(scored, e)

RECURSIVE ScoreAll(_, _, _, _)
\* lines 50-68: the loop over flat
ScoreAll(pool, tg, ta, rated) ==
    IF pool = <<>> THEN <<>>
    ELSE LET b == pool[Len(pool)]
             before == ScoreAll(SubSeq(pool, 1, Len(pool) - 1), tg, ta, rated)
             score == Score(b, tg, ta, rated)
         IN  IF Falsy(b.book_id) THEN before
             ELSE IF Keeps(before, b.book_id, score)
                  THEN Put(before, b.book_id, score, b)
                  ELSE before

\* the score line 54-65 computes for each pool entry, 0 where line 53 skips it
ComputedScores(pool, tg, ta, rated) ==
    [i \in 1..Len(pool) |->
        IF Falsy(pool[i].book_id) THEN 0 ELSE Score(pool[i], tg, ta, rated)]

RECURSIVE InsertByScore(_, _)
\* e placed after every entry that scores at least as much
InsertByScore(sorted, e) ==
    IF sorted = <<>> THEN <<e>>
    ELSE IF Head(sorted).score >= e.score
         THEN <<Head(sorted)>> \o InsertByScore(Tail(sorted), e)
         ELSE <<e>> \o sorted

\* SortedByScore without the sort: the dict's order
SortedByScore_Unsorted(entries) == entries

RECURSIVE SortedByScore(_)
\* line 71: sorted(scored.values(), key=score, reverse=True), a stable sort
SortedByScore(entries) ==
    IF entries = <<>> THEN <<>>
    ELSE InsertByScore(SortedByScore(SubSeq(entries, 1, Len(entries) - 1)),
                       entries[Len(entries)])

Max(a, b) == IF a > b THEN a ELSE b

\* Python's s[:n], n negative counting from the end
Slice(s, n) == IF n >= 0 THEN Take(s, n) ELSE Take(s, Max(Len(s) + n, 0))

\* line 72
TopBooks(entries, n) ==
    LET top == Slice(SortedByScore(entries), n)
    IN  [i \in 1..Len(top) |-> top[i].book]

\* lines 45-48: the ids of the documents the second cursor yields
RatedIds(docs) == {docs[i].book_id : i \in 1..Len(docs)}

\* ------------------------------------------------------------------------
\* State
\* ------------------------------------------------------------------------
VARIABLES
    ratings_col,   \* the rating store, documents in collection order
    pc,            \* where the request is: idle, profile, gather, rated, done, failed
    user_id,       \* the request's user_id
    limit,         \* the request's limit
    top_genres,    \* line 27
    top_authors,   \* line 27
    tasks,         \* line 30: the queries, in submission order
    tstate,        \* per task: scheduled, running, returned, recovered, raised
    results,       \* per task: the list it returned
    gather,        \* the future of asyncio.gather: none, pending, result, exception
    flat,          \* line 41
    rated_ids,     \* line 46
    scored,        \* line 44
    scores,        \* the score computed for each entry of flat
    out,           \* the list returned to the caller
    issued,        \* the bag of queries sent to the search provider
    storeReads,    \* the number of rating-store scans begun
    storeFault,    \* the rating store failed during a scan of this request
    error,         \* what the request failed with: none, store, search
    snap1,         \* the user's documents as the scan of line 10 read them
    snap2,         \* the user's documents as the scan of line 45 read them
    completed,     \* the tasks in the order in which they finished
    top_n,         \* the top_n of a call of get_user_top_genres_and_authors
    wpc,           \* per rating request: idle, insert, done, notfound
    wdoc,          \* per rating request: the document its upsert is to insert
    seen,          \* the states of the user's documents during the request
    users_col,     \* the accounts, documents in collection order
    resets_col,    \* the password-reset tokens, documents in collection order
    now,           \* datetime.utcnow(), in hours
    minted,        \* per token issued, the user_id it was issued for
    rst            \* per reset request: where it is and what it holds

vars == <<ratings_col, pc, user_id, limit, top_genres, top_authors, tasks, tstate,
          results, gather, flat, rated_ids, scored, scores, out, issued,
          storeReads, storeFault, error, snap1, snap2, completed, top_n,
          wpc, wdoc, seen, users_col, resets_col, now, minted, rst>>

\* the requests that write ratings
Writers == {"w1", "w2"}

\* the state of the other handlers, which a step of the request leaves alone
accounts == <<users_col, resets_col, now, minted, rst>>

handlers == <<wpc, wdoc, seen, accounts>>

\* the requests that reset a password
Resetters == 1..MaxResets

\* auth.py line 36: the stored form of a password
hash_password(password) == [hash_of |-> password]

\* the account that signup (auth.py lines 70-84) stored, its email lower-cased
Account1 == [user_id |-> "u1", email |-> <<"a">>, password_hash |-> hash_password("p0")]

\* what find_one gives when no document matches
NoDoc == [missing |-> TRUE]

\* a reset request that has not begun
ResetIdle ==
    [pc |-> "idle", token |-> 0, new_password |-> "", rec |-> NoDoc,
     after |-> {}, changed |-> FALSE]

others == <<top_n, handlers>>

UserIds == {"", "u1"}

\* a negative limit, zero, and the positive ones
Limits == {-1} \cup 0..MaxLimit

\* every handler at rest
AtRest ==
    /\ pc = "idle"
    /\ user_id = ""
    /\ limit = 0
    /\ top_genres = <<>>
    /\ top_authors = <<>>
    /\ tasks = <<>>
    /\ tstate = <<>>
    /\ results = <<>>
    /\ gather = "none"
    /\ flat = <<>>
    /\ rated_ids = {}
    /\ scored = <<>>
    /\ scores = <<>>
    /\ out = <<>>
    /\ issued = EmptyBag
    /\ storeReads = 0
    /\ storeFault = FALSE
    /\ error = "none"
    /\ snap1 = <<>>
    /\ snap2 = <<>>
    /\ completed = <<>>
    /\ top_n = TopN
    /\ wpc = [w \in Writers |-> "idle"]
    /\ wdoc = [w \in Writers |-> <<>>]
    /\ seen = {}
    /\ users_col = <<Account1>>
    /\ resets_col = <<>>
    /\ now = 0
    /\ minted = <<>>
    /\ rst = [r \in Resetters |-> ResetIdle]

Init == ratings_col \in Stores /\ AtRest

Finished(st) == st \in {"returned", "recovered", "raised"}

\* ------------------------------------------------------------------------
\* Actions
\* ------------------------------------------------------------------------
\* GET /recommend/user/{user_id}?limit=: recommend_user calls recommend_for_user
\* with the two values as received; the first scan of the store begins.
Request(u, l) ==
    /\ pc = "idle"
    /\ pc' = "profile"
    /\ user_id' = u
    /\ limit' = l
    /\ storeReads' = storeReads + 1
    /\ UNCHANGED <<ratings_col, top_genres, top_authors, tasks, tstate, results,
                   gather, flat, rated_ids, scored, scores, out, issued,
                   storeFault, error>>
    /\ UNCHANGED <<snap1, snap2, completed>>
    /\ UNCHANGED others

\* Lines 27-40: the profile scan completes, the queries are built and handed
\* to asyncio.gather, which schedules every one of them as a task.
ProfileScan ==
    /\ pc = "profile"
    /\ LET docs == Find(ratings_col, user_id)
           tg == TopGenres(docs, TopN)
           ta == TopAuthors(docs, TopN)
           ts == BuildTasks(tg, ta)
       IN  /\ top_genres' = tg
           /\ top_authors' = ta
           /\ tasks' = ts
           /\ tstate' = [i \in 1..Len(ts) |-> "scheduled"]
           /\ results' = [i \in 1..Len(ts) |-> <<>>]
    /\ gather' = "pending"
    /\ pc' = "gather"
    /\ UNCHANGED <<ratings_col, user_id, limit, flat, rated_ids, scored, scores,
                   out, issued, storeReads, storeFault, error>>
    /\ snap1' = Find(ratings_col, user_id)
    /\ UNCHANGED <<snap2, completed>>
    /\ UNCHANGED others

\* ProfileScanFail with the cursor's error swallowed: the request goes on
\* with the profile of the documents read before the failure.
ProfileScanFail_Swallowed ==
    /\ pc = "profile"
    /\ storeFault' = TRUE
    /\ \E k \in 0..Len(Find(ratings_col, user_id)) :
          LET docs == SubSeq(Find(ratings_col, user_id), 1, k)
              tg == TopGenres(docs, TopN)
              ta == TopAuthors(docs, TopN)
              ts == BuildTasks(tg, ta)
          IN  /\ top_genres' = tg
              /\ top_authors' = ta
              /\ tasks' = ts
              /\ tstate' = [i \in 1..Len(ts) |-> "scheduled"]
              /\ results' = [i \in 1..Len(ts) |-> <<>>]
    /\ gather' = "pending"
    /\ pc' = "gather"
    /\ UNCHANGED <<ratings_col, user_id, limit, flat, rated_ids, scored, scores,
                   out, issued, storeReads, error>>
    /\ UNCHANGED <<snap1, snap2, completed>>
    /\ UNCHANGED others

\* Line 13: the cursor raises while the profile is being read; the exception
\* leaves get_user_top_genres_and_authors and recommend_for_user.
ProfileScanFail ==
    /\ pc = "profile"
    /\ storeFault' = TRUE
    /\ error' = "store"
    /\ pc' = "failed"
    /\ UNCHANGED <<ratings_col, user_id, limit, top_genres, top_authors, tasks,
                   tstate, results, gather, flat, rated_ids, scored, scores, out,
                   issued, storeReads>>
    /\ UNCHANGED <<snap1, snap2, completed>>
    /\ UNCHANGED others

\* A scheduled task runs search_books_by_keywords up to its HTTP request.
TaskStart(i) ==
    /\ i \in 1..Len(tasks)
    /\ tstate[i] = "scheduled"
    /\ tstate' = [tstate EXCEPT ![i] = "running"]
    /\ issued' = issued (+) SetToBag({tasks[i]})
    /\ UNCHANGED <<ratings_col, pc, user_id, limit, top_genres, top_authors,
                   tasks, results, gather, flat, rated_ids, scored, scores, out,
                   storeReads, storeFault, error>>
    /\ UNCHANGED <<snap1, snap2, completed>>
    /\ UNCHANGED others

\* the state of gather's future after task i ends with state st
GatherAfter(i, st) ==
    IF gather # "pending" THEN gather
    ELSE IF st = "raised" THEN "exception"
    ELSE IF \A j \in 1..Len(tasks) : j # i => Finished(tstate[j]) THEN "result"
    ELSE "pending"

\* The round trip of task i ends with resp; the task returns or raises, and
\* gather's done-callback runs.
TaskEnds(i, resp) ==
    /\ i \in 1..Len(tasks)
    /\ tstate[i] = "running"
    /\ LET st == IF Raises(resp) THEN "raised"
                 ELSE IF Failed(resp) THEN "recovered"
                 ELSE "returned"
       IN  /\ tstate' = [tstate EXCEPT ![i] = st]
           /\ results' = [results EXCEPT ![i] =
                            IF st = "raised" THEN <<>>
                            ELSE search_books_by_keywords(resp)]
           /\ gather' = GatherAfter(i, st)
    /\ UNCHANGED <<ratings_col, pc, user_id, limit, top_genres, top_authors,
                   tasks, flat, rated_ids, scored, scores, out, issued,
                   storeReads, storeFault, error>>
    /\ UNCHANGED <<snap1, snap2>>
    /\ UNCHANGED others

TaskFinish(i, resp) == TaskEnds(i, resp) /\ UNCHANGED completed

\* TaskFinish with the order of completion recorded
TaskFinishLogged(i, resp) == TaskEnds(i, resp) /\ completed' = Append(completed, i)

\* GatherReturn with the pool in the order of completion, as
\* asyncio.as_completed would give it
GatherReturn_CompletionOrder ==
    /\ pc = "gather"
    /\ gather = "result"
    /\ flat' = Flatten([k \in 1..Len(completed) |-> results[completed[k]]])
    /\ storeReads' = storeReads + 1
    /\ pc' = "rated"
    /\ UNCHANGED <<ratings_col, user_id, limit, top_genres, top_authors, tasks,
                   tstate, results, gather, rated_ids, scored, scores, out,
                   issued, storeFault, error>>
    /\ UNCHANGED <<snap1, snap2, completed>>
    /\ UNCHANGED others

\* Lines 40-45: `await asyncio.gather` returns the results in submission
\* order; flat is built and the second scan of the store begins.
GatherReturn ==
    /\ pc = "gather"
    /\ gather = "result"
    /\ flat' = Flatten(results)
    /\ storeReads' = storeReads + 1
    /\ pc' = "rated"
    /\ UNCHANGED <<ratings_col, user_id, limit, top_genres, top_authors, tasks,
                   tstate, results, gather, rated_ids, scored, scores, out,
                   issued, storeFault, error>>
    /\ UNCHANGED <<snap1, snap2, completed>>
    /\ UNCHANGED others

\* Line 40: `await asyncio.gather` raises the first exception of a task; it
\* leaves recommend_for_user. The other tasks are not cancelled.
GatherRaise ==
    /\ pc = "gather"
    /\ gather = "exception"
    /\ error' = "search"
    /\ pc' = "failed"
    /\ UNCHANGED <<ratings_col, user_id, limit, top_genres, top_authors, tasks,
                   tstate, results, gather, flat, rated_ids, scored, scores, out,
                   issued, storeReads, storeFault>>
    /\ UNCHANGED <<snap1, snap2, completed>>
    /\ UNCHANGED others

\* Lines 47-72: the second scan completes, the pool is scored, deduplicated,
\* sorted and cut, and the list is returned.
RatedScan ==
    /\ pc = "rated"
    /\ LET rated == RatedIds(Find(ratings_col, user_id))
           sc == ScoreAll(flat, top_genres, top_authors, rated)
       IN  /\ rated_ids' = rated
           /\ scored' = sc
           /\ scores' = ComputedScores(flat, top_genres, top_authors, rated)
           /\ out' = TopBooks(sc, limit)
    /\ pc' = "done"
    /\ UNCHANGED <<ratings_col, user_id, limit, top_genres, top_authors, tasks,
                   tstate, results, gather, flat, issued, storeReads, storeFault,
                   error>>
    /\ snap2' = Find(ratings_col, user_id)
    /\ UNCHANGED <<snap1, completed>>
    /\ UNCHANGED others

\* Line 47: the cursor raises while the rated ids are being read.
RatedScanFail ==
    /\ pc = "rated"
    /\ storeFault' = TRUE
    /\ error' = "store"
    /\ pc' = "failed"
    /\ UNCHANGED <<ratings_col, user_id, limit, top_genres, top_authors, tasks,
                   tstate, results, gather, flat, rated_ids, scored, scores, out,
                   issued, storeReads>>
    /\ UNCHANGED <<snap1, snap2, completed>>
    /\ UNCHANGED others

Next ==
    \/ \E u \in UserIds, l \in Limits : Request(u, l)
    \/ ProfileScan
    \/ ProfileScanFail
    \/ \E i \in 1..Len(tasks) : TaskStart(i)
    \/ \E i \in 1..Len(tasks), resp \in Responses : TaskFinish(i, resp)
    \/ GatherReturn
    \/ GatherRaise
    \/ RatedScan
    \/ RatedScanFail

Spec == Init /\ [][Next]_vars

\* ------------------------------------------------------------------------
\* get_user_top_genres_and_authors on its own
\* ------------------------------------------------------------------------
RecD4 == [user_id |-> "u1", book_id |-> "D4", rating |-> 4,
          categories |-> <<sSciFic>>, authors |-> <<sRoe>>]

\* a genre twice in one document, in two spellings
RecE5 == [user_id |-> "u1", book_id |-> "E5", rating |-> 6,
          categories |-> <<sFic, sFicCap>>, authors |-> <<sRoe, sJane>>]

ProfileRecords == {RecA1, RecB2, RecC3, RecD4, RecE5, RecOther}

ProfileStores == UNION {[1..n -> ProfileRecords] : n \in 0..MaxDocs}

TopNs == 0..MaxTopN

InitProfile == ratings_col \in ProfileStores /\ AtRest

\* Lines 8-23: one call of get_user_top_genres_and_authors(u, n).
GetTop(u, n) ==
    /\ pc = "idle"
    /\ user_id' = u
    /\ top_n' = n
    /\ top_genres' = TopGenres(Find(ratings_col, u), n)
    /\ top_authors' = TopAuthors(Find(ratings_col, u), n)
    /\ snap1' = Find(ratings_col, u)
    /\ pc' = "profiled"
    /\ UNCHANGED <<ratings_col, limit, tasks, tstate, results, gather, flat,
                   rated_ids, scored, scores, out, issued, storeReads,
                   storeFault, error, snap2, completed>>
    /\ UNCHANGED handlers

NextProfile == \E u \in UserIds, n \in TopNs : GetTop(u, n)

SpecProfile == InitProfile /\ [][NextProfile]_vars

\* ------------------------------------------------------------------------
\* add_rating and delete_rating, concurrent with a recommendation request
\* ------------------------------------------------------------------------
\* the documents add_rating builds from a RatingIn of user u1: r.dict() with
\* the user_id of the token (the timestamp is left out)
RatingDocs ==
    {[user_id |-> "u1", book_id |-> b, rating |-> x,
      categories |-> <<sFic>>, authors |-> <<sJane>>] :
        b \in {"A1", "B2"}, x \in {2, 10}}

\* the filter of update_one and delete_one
Matches(r, uid, bid) == r.user_id = uid /\ r.book_id = bid

HasMatch(col, uid, bid) == \E i \in 1..Len(col) : Matches(col[i], uid, bid)

FirstMatch(col, uid, bid) ==
    CHOOSE i \in 1..Len(col) :
        /\ Matches(col[i], uid, bid)
        /\ \A j \in 1..(i - 1) : ~Matches(col[j], uid, bid)

\* {"$set": doc} applied to a stored document
SetFields(old, doc) ==
    [f \in DOMAIN old \cup DOMAIN doc |->
        IF f \in DOMAIN doc THEN doc[f] ELSE old[f]]

RemoveAt(col, i) == SubSeq(col, 1, i - 1) \o SubSeq(col, i + 1, Len(col))

\* the user's documents after a write, recorded while a request is in flight
SeenAfter(col) ==
    IF pc \in {"profile", "gather", "rated"}
    THEN seen \cup {Find(col, user_id)}
    ELSE seen

RequestUnchanged ==
    /\ UNCHANGED <<pc, user_id, limit, top_genres, top_authors, tasks, tstate,
                results, gather, flat, rated_ids, scored, scores, out, issued,
                storeReads, storeFault, error, snap1, snap2, completed, top_n>>
    /\ UNCHANGED accounts

\* Lines 59-69: update_one(filter, {"$set": doc}, upsert=True) looks for a
\* document of the pair. One found is updated in place, and the request is
\* done; with none found the upsert goes on to insert. ratings_col has no
\* unique index on the pair (startup, lines 36-40), so the server does not
\* serialise the look-up and the insert of two upserts.
AddRatingUpdate(w, doc) ==
    /\ wpc[w] = "idle"
    /\ IF HasMatch(ratings_col, doc.user_id, doc.book_id)
       THEN LET i == FirstMatch(ratings_col, doc.user_id, doc.book_id)
            IN  /\ ratings_col' =
                      [ratings_col EXCEPT ![i] = SetFields(ratings_col[i], doc)]
                /\ wpc' = [wpc EXCEPT ![w] = "done"]
                /\ wdoc' = wdoc
       ELSE /\ ratings_col' = ratings_col
            /\ wpc' = [wpc EXCEPT ![w] = "insert"]
            /\ wdoc' = [wdoc EXCEPT ![w] = doc]
    /\ seen' = SeenAfter(ratings_col')
    /\ RequestUnchanged

\* Lines 65-70: the upsert that found no document inserts its own.
AddRatingInsert(w) ==
    /\ wpc[w] = "insert"
    /\ ratings_col' = Append(ratings_col, wdoc[w])
    /\ wpc' = [wpc EXCEPT ![w] = "done"]
    /\ wdoc' = wdoc
    /\ seen' = SeenAfter(ratings_col')
    /\ RequestUnchanged

\* Lines 94-100: delete_one removes the first document of the pair, if any.
DeleteRating(w, bid) ==
    /\ wpc[w] = "idle"
    /\ IF HasMatch(ratings_col, "u1", bid)
       THEN /\ ratings_col' = RemoveAt(ratings_col, FirstMatch(ratings_col, "u1", bid))
            /\ wpc' = [wpc EXCEPT ![w] = "done"]
       ELSE /\ ratings_col' = ratings_col
            /\ wpc' = [wpc EXCEPT ![w] = "notfound"]
    /\ wdoc' = wdoc
    /\ seen' = SeenAfter(ratings_col')
    /\ RequestUnchanged

InitStore == ratings_col \in {<<>>, <<RecA1>>, <<RecC3, RecA1>>} /\ AtRest

\* the answers of the search provider tried beside the writes
StoreResponses == {[kind |-> "json", items |-> <<ItemA1>>], [kind |-> "http_error"]}

NextStore ==
    \/ \E w \in Writers, doc \in RatingDocs : AddRatingUpdate(w, doc)
    \/ \E w \in Writers : AddRatingInsert(w)
    \/ \E w \in Writers, bid \in {"A1", "B2"} : DeleteRating(w, bid)
    \/ Request("u1", MaxLimit)
    \/ ProfileScan
    \/ \E i \in 1..Len(tasks) : TaskStart(i)
    \/ \E i \in 1..Len(tasks), resp \in StoreResponses : TaskFinish(i, resp)
    \/ GatherReturn
    \/ RatedScan

SpecStore == InitStore /\ [][NextStore]_vars

\* ------------------------------------------------------------------------
\* The request with the order of completion of its queries recorded
\* ------------------------------------------------------------------------
InitOrder == ratings_col \in {col \in Stores : Len(col) <= 1} /\ AtRest

NextOrder ==
    \/ \E l \in Limits : Request("u1", l)
    \/ ProfileScan
    \/ \E i \in 1..Len(tasks) : TaskStart(i)
    \/ \E i \in 1..Len(tasks), resp \in Responses : TaskFinishLogged(i, resp)
    \/ GatherReturn
    \/ GatherRaise
    \/ RatedScan

SpecOrder == InitOrder /\ [][NextOrder]_vars

\* ------------------------------------------------------------------------
\* Password reset (auth.py)
\* ------------------------------------------------------------------------
\* auth.py line 104: timedelta(hours=1)
ResetTTL == 1

Emails == {<<"a">>, <<"A">>, <<"z">>}
NewPasswords == {"p1", "p2"}

\* find_one: the first document that has the value in the field, if any
RECURSIVE FindOne(_, _, _)
FindOne(col, field, value) ==
    IF col = <<>> THEN NoDoc
    ELSE IF Head(col)[field] = value THEN Head(col)
    ELSE FindOne(Tail(col), field, value)

\* delete_one: the collection without the first document that matches
RECURSIVE DeleteOne(_, _, _)
DeleteOne(col, field, value) ==
    IF col = <<>> THEN <<>>
    ELSE IF Head(col)[field] = value THEN Tail(col)
    ELSE <<Head(col)>> \o DeleteOne(Tail(col), field, value)

\* update_one with $set of one field: the first document that matches
RECURSIVE UpdateOne(_, _, _, _, _)
UpdateOne(col, field, value, setField, setValue) ==
    IF col = <<>> THEN <<>>
    ELSE IF Head(col)[field] = value
         THEN <<[Head(col) EXCEPT ![setField] = setValue]>> \o Tail(col)
    ELSE <<Head(col)>> \o UpdateOne(Tail(col), field, value, setField, setValue)

AuthUnchanged ==
    UNCHANGED <<ratings_col, pc, user_id, limit, top_genres, top_authors, tasks,
                tstate, results, gather, flat, rated_ids, scored, scores, out,
                issued, storeReads, storeFault, error, snap1, snap2, completed,
                top_n, wpc, wdoc, seen>>

\* Lines 99-107: forgot. The account is looked up by the lower-cased
\* email, and a fresh token is stored whether or not there is one; no
\* handler changes an account's email or user_id, so the look-up and the
\* insert are one step. uuid4 tokens are taken not to repeat.
Forgot(email) ==
    /\ Len(minted) < MaxTokens
    /\ LET user  == FindOne(users_col, "email", Lower(email))
           token == Len(minted) + 1
           doc   == [token |-> token,
                     user_id |-> IF user # NoDoc THEN user.user_id ELSE None,
                     created_at |-> now,
                     expires_at |-> now + ResetTTL]
       IN  /\ resets_col' = Append(resets_col, doc)
           /\ minted' = Append(minted, doc.user_id)
    /\ UNCHANGED <<users_col, now, rst>>
    /\ AuthUnchanged

\* an hour passes
Tick ==
    /\ now < MaxClock
    /\ now' = now + 1
    /\ UNCHANGED <<users_col, resets_col, minted, rst>>
    /\ AuthUnchanged

\* Lines 111-113: reset looks the token up and answers 400 when there is no
\* document, when it has expired or when it has no user_id.
ResetFind(r, t, pw) ==
    /\ rst[r].pc = "idle"
    /\ LET rec == FindOne(resets_col, "token", t)
           bad == \/ rec = NoDoc
                  \/ rec.expires_at < now
                  \/ rec.user_id = None
       IN  rst' = [rst EXCEPT ![r] =
                     [pc |-> IF bad THEN "rejected" ELSE "update",
                      token |-> t,
                      new_password |-> pw,
                      rec |-> rec,
                      after |-> {q \in Resetters :
                                    rst[q].pc = "ok" /\ rst[q].token = t},
                      changed |-> FALSE]]
    /\ UNCHANGED <<users_col, resets_col, now, minted>>
    /\ AuthUnchanged

\* Line 114: the password of the document's user is replaced.
ResetUpdate(r) ==
    /\ rst[r].pc = "update"
    /\ users_col' = UpdateOne(users_col, "user_id", rst[r].rec.user_id,
                              "password_hash", hash_password(rst[r].new_password))
    /\ rst' = [rst EXCEPT ![r].pc = "delete",
                          ![r].changed =
                              FindOne(users_col, "user_id", rst[r].rec.user_id) # NoDoc]
    /\ UNCHANGED <<resets_col, now, minted>>
    /\ AuthUnchanged

\* Lines 115-116: the token's document is deleted and the request answers ok.
ResetDelete(r) ==
    /\ rst[r].pc = "delete"
    /\ resets_col' = DeleteOne(resets_col, "token", rst[r].token)
    /\ rst' = [rst EXCEPT ![r].pc = "ok"]
    /\ UNCHANGED <<users_col, now, minted>>
    /\ AuthUnchanged

InitAuth == ratings_col = <<>> /\ AtRest

NextAuth ==
    \/ \E email \in Emails : Forgot(email)
    \/ Tick
    \/ \E r \in Resetters, t \in 1..MaxTokens, pw \in NewPasswords : ResetFind(r, t, pw)
    \/ \E r \in Resetters : ResetUpdate(r)
    \/ \E r \in Resetters : ResetDelete(r)

SpecAuth == InitAuth /\ [][NextAuth]_vars

\* ------------------------------------------------------------------------
\* Properties
\* ------------------------------------------------------------------------
AllFinished == \A i \in 1..Len(tasks) : Finished(tstate[i])

AllStarted == \A i \in 1..Len(tasks) : tstate[i] # "scheduled"

\* C1: a query whose round trip fails, whatever the error, contributes an
\* empty list, and the request does not fail because of it: it goes on to
\* return the list ranked from the other queries' results.
C1_SearchFailureTolerated ==
    /\ \A i \in 1..Len(tasks) :
          tstate[i] \in {"recovered", "raised"} => results[i] = <<>>
    /\ error # "search"
    /\ pc \in {"rated", "done"} => flat = Flatten(results)

\* C2: the request is past the fan-in (it scores, has returned a list or has
\* returned a failure to the caller) only when every query of the request
\* has finished; and no query finishes before all of them were scheduled.
C2_FanInBarrier ==
    /\ (gather # "none" /\ pc \in {"rated", "done", "failed"}) => AllFinished
    /\ (\E i \in 1..Len(tasks) : tstate[i] # "scheduled")
          => Len(tstate) = Len(tasks)

\* the queries the claim C3 expects for a profile
GenreQuery(g) == [q |-> <<"subject:">> \o g, max_results |-> 10]

AuthorQuery(a) == [q |-> <<"inauthor:">> \o a, max_results |-> 10]

FallbackQueries ==
    {[q |-> <<"subject:">> \o sFiction, max_results |-> 15],
     [q |-> <<"subject:">> \o sNonfiction, max_results |-> 15]}

ExpectedCopies(qq) ==
    IF top_genres = <<>> /\ top_authors = <<>>
    THEN IF qq \in FallbackQueries THEN 1 ELSE 0
    ELSE Cardinality({i \in 1..Len(top_genres) : GenreQuery(top_genres[i]) = qq})
         + Cardinality({i \in 1..Len(top_authors) : AuthorQuery(top_authors[i]) = qq})

ExpectedQueries ==
    IF top_genres = <<>> /\ top_authors = <<>>
    THEN FallbackQueries
    ELSE {GenreQuery(top_genres[i]) : i \in 1..Len(top_genres)} \cup
         {AuthorQuery(top_authors[i]) : i \in 1..Len(top_authors)}

\* C3: the queries sent for a request are one genre query per entry of
\* top_genres and one author query per entry of top_authors, or exactly the
\* fallback queries when both are empty (as for a user without ratings);
\* never more than once each, failures included, and never none.
C3_QueriesIssuedOnce ==
    gather # "none" =>
        /\ \A qq \in BagToSet(issued) : CopiesIn(qq, issued) <= ExpectedCopies(qq)
        /\ AllStarted =>
              /\ \A qq \in ExpectedQueries :
                    CopiesIn(qq, issued) = ExpectedCopies(qq)
              /\ BagCardinality(issued) > 0
        /\ (AllStarted /\ Find(ratings_col, user_id) = <<>>)
              => BagToSet(issued) = FallbackQueries

C3_Witness ==
    /\ pc = "done"
    /\ Len(top_genres) = 2
    /\ Len(top_authors) = 1
    /\ \E i \in 1..Len(tasks) : tstate[i] = "recovered"

Occurrences(bid) == {k \in 1..Len(flat) : flat[k].book_id = bid}

\* C4: the returned list has at most one entry per book_id, and the entry
\* kept for a book_id is an occurrence of the pool whose score is the maximum
\* over that book_id's occurrences.
C4_DedupKeepsMaximum ==
    pc = "done" =>
        /\ \A i, j \in 1..Len(out) : out[i].book_id = out[j].book_id => i = j
        /\ \A i \in 1..Len(out) :
              \E k \in Occurrences(out[i].book_id) :
                  /\ flat[k] = out[i]
                  /\ \A m \in Occurrences(out[i].book_id) : scores[m] <= scores[k]

C4_Witness ==
    /\ pc = "done"
    /\ \E i \in 1..Len(out) :
          \E k, m \in Occurrences(out[i].book_id) :
              k < m /\ scores[k] < scores[m]

ValidIds == {flat[k].book_id : k \in 1..Len(flat)} \ {None, ""}

\* C5: the returned list is never longer than limit, and when the pool has
\* fewer distinct non-empty book_ids than limit, all of them are returned.
C5_AtMostLimit ==
    pc = "done" =>
        /\ Len(out) <= limit
        /\ Cardinality(ValidIds) < limit
              => {out[i].book_id : i \in 1..Len(out)} = ValidIds

Malformed(b) == b.book_id = None \/ b.book_id = ""

\* C6: a candidate without a book_id (missing, null or empty) is never
\* returned, and the request returns the list it would return for the pool
\* without such candidates.
C6_MalformedDropped ==
    pc = "done" =>
        /\ \A i \in 1..Len(out) : ~Malformed(out[i])
        /\ error = "none"
        /\ out = TopBooks(ScoreAll(SelectSeq(flat, LAMBDA b : ~Malformed(b)),
                                   top_genres, top_authors, rated_ids), limit)

C6_Witness ==
    /\ pc = "done"
    /\ \E k \in 1..Len(flat) : flat[k].book_id = None
    /\ \E k \in 1..Len(flat) : flat[k].book_id = ""
    /\ Len(out) >= 1

\* a is a substring of b, letter case ignored
CISubstring(a, b) == IsSubstring(Lower(a), Lower(b))

MatchCount(wanted, names) ==
    Cardinality({i \in 1..Len(wanted) :
                    \E c \in Range(names) : CISubstring(wanted[i], c)})

\* C7: the score of a candidate with a book_id is 1.0, plus 2.0 per entry of
\* top_genres found in one of its categories, plus 2.5 per entry of
\* top_authors found in one of its authors, plus 0.5 when the user has not
\* rated it (here in units of 0.5); in the scenario of one rating of A1 and
\* the pool A1, B2 the scores are 5.5 and 3.5 and the order is A1, B2.
C7_ScoreFormula ==
    pc = "done" =>
        /\ \A k \in 1..Len(flat) :
              ~Malformed(flat[k]) =>
                  scores[k] = 2 + 4 * MatchCount(top_genres, flat[k].categories)
                                + 5 * MatchCount(top_authors, flat[k].authors)
                                + (IF flat[k].book_id \in rated_ids THEN 0 ELSE 1)
        /\ ( /\ Find(ratings_col, user_id) = <<RecA1>>
             /\ flat = <<normalize_book(ItemA1), normalize_book(ItemB2)>>
             /\ limit >= 2 )
              => scores = <<11, 7>> /\ out = flat

C7_Witness ==
    /\ pc = "done"
    /\ Find(ratings_col, user_id) = <<RecA1>>
    /\ flat = <<normalize_book(ItemA1), normalize_book(ItemB2)>>
    /\ limit = 2
    /\ out = flat

OutScore(i) == ScoreOf(scored, out[i].book_id)

FirstOccurrence(bid) ==
    CHOOSE k \in Occurrences(bid) : \A m \in Occurrences(bid) : k <= m

\* C8: the returned list is in non-increasing order of score; no candidate
\* cut off scores higher than a returned one; and when all scores are equal
\* the list is in the order in which the book_ids first occur in the pool.
C8_SortedTopK ==
    pc = "done" =>
        /\ \A i, j \in 1..Len(out) : i < j => OutScore(i) >= OutScore(j)
        /\ \A e \in Range(scored) :
              (\A i \in 1..Len(out) : out[i].book_id # e.book_id)
                  => \A i \in 1..Len(out) : e.score <= OutScore(i)
        /\ (\A e1, e2 \in Range(scored) : e1.score = e2.score)
              => \A i, j \in 1..Len(out) :
                    i < j => FirstOccurrence(out[i].book_id)
                               < FirstOccurrence(out[j].book_id)

C8_Witness ==
    /\ pc = "done"
    /\ Len(scored) = 2
    /\ scored[1].score < scored[2].score
    /\ limit = 1
    /\ out = <<scored[2].book>>

\* C9: a request with an empty user_id or a limit of zero or less is
\* rejected before any I/O: no scan of the rating store is begun, no query
\* is sent and no list is returned.
C9_ValidationBeforeIO ==
    (pc # "idle" /\ (user_id = "" \/ limit <= 0)) =>
        /\ storeReads = 0
        /\ issued = EmptyBag
        /\ pc # "done"

UserDocs == {r \in Range(ratings_col) : r.user_id = user_id}

\* C10: when the rating store fails during one of the two scans the request
\* fails with that error and returns no list; a returned list was scored with
\* the profile and the rated ids of all of the user's records.
C10_StoreFailurePropagates ==
    /\ storeFault => (pc = "failed" /\ error = "store" /\ out = <<>>)
    /\ pc = "done" =>
          /\ top_genres = TopGenres(Find(ratings_col, user_id), TopN)
          /\ top_authors = TopAuthors(Find(ratings_col, user_id), TopN)
          /\ rated_ids = {r.book_id : r \in UserDocs}

C10_Witness ==
    /\ storeFault
    /\ pc = "failed"
    /\ gather = "result"
    /\ Len(top_genres) >= 1

\* the keys of a field in scan order, lower-cased, each with its document's rating
RECURSIVE Mentions(_, _)
Mentions(docs, field) ==
    IF docs = <<>> THEN <<>>
    ELSE LET d == Head(docs)
             names == IF field \in DOMAIN d THEN d[field] ELSE <<>>
         IN  [j \in 1..Len(names) |->
                 [key |-> Lower(names[j]), rating |-> d.rating]]
             \o Mentions(Tail(docs), field)

RECURSIVE WeightIn(_, _)
WeightIn(mentions, key) ==
    IF mentions = <<>> THEN 0
    ELSE (IF Head(mentions).key = key THEN Head(mentions).rating ELSE 0)
         + WeightIn(Tail(mentions), key)

FirstMention(mentions, key) ==
    CHOOSE i \in 1..Len(mentions) :
        /\ mentions[i].key = key
        /\ \A j \in 1..(i - 1) : mentions[j].key # key

\* key a ranks before key b: heavier, or as heavy and met earlier
RanksBefore(mentions, a, b) ==
    \/ WeightIn(mentions, a) > WeightIn(mentions, b)
    \/ /\ WeightIn(mentions, a) = WeightIn(mentions, b)
       /\ FirstMention(mentions, a) < FirstMention(mentions, b)

IsTopList(list, mentions, n) ==
    LET keys == {mentions[i].key : i \in 1..Len(mentions)}
    IN  /\ Len(list) <= n
        /\ Len(list) = (IF Cardinality(keys) < n THEN Cardinality(keys) ELSE n)
        /\ \A i \in 1..Len(list) : list[i] \in keys /\ Lower(list[i]) = list[i]
        /\ \A i, j \in 1..Len(list) : i < j => RanksBefore(mentions, list[i], list[j])
        /\ \A k \in keys \ Range(list) :
              \A i \in 1..Len(list) : RanksBefore(mentions, list[i], k)

\* C11: get_user_top_genres_and_authors returns two lists of lower-cased
\* keys, each at most top_n long: the top_n keys by the sum of the ratings
\* of the user's records over every mention of the key, letter case ignored,
\* heaviest first and equal weights in the order first met in the scan;
\* a record without genres or authors adds nothing.
C11_TopLists ==
    pc = "profiled" =>
        /\ IsTopList(top_genres, Mentions(snap1, "categories"), top_n)
        /\ IsTopList(top_authors, Mentions(snap1, "authors"), top_n)
        /\ snap1 = SelectSeq(ratings_col, LAMBDA r : r.user_id = user_id)

C11_Witness ==
    /\ pc = "profiled"
    /\ top_n = 2
    /\ Len(top_genres) = 2
    /\ \E i \in 1..Len(snap1) : "categories" \notin DOMAIN snap1[i]
    /\ \E i \in 1..Len(snap1) : snap1[i] = RecB2
    /\ LET m == Mentions(snap1, "categories")
       IN  \E i \in 1..Len(m) :
              /\ m[i].key \notin Range(top_genres)
              /\ WeightIn(m, m[i].key) = WeightIn(m, top_genres[2])

\* C12: the rating store never holds two records of one (user_id, book_id)
\* pair, whatever the interleaving of add_rating and delete_rating requests.
C12_OneRecordPerPair == UniquePairs(ratings_col)

\* C13: a returned list was scored with a profile and a rated-id set that
\* both derive from one state of the user's records during the request.
C13_SingleSnapshot ==
    pc = "done" =>
        \E docs \in seen \cup {snap1, snap2} :
            /\ top_genres = TopGenres(docs, TopN)
            /\ top_authors = TopAuthors(docs, TopN)
            /\ rated_ids = {docs[i].book_id : i \in 1..Len(docs)}

\* the first of the occurrences of bid in the pool that score highest
FirstBest(bid) ==
    CHOOSE k \in Occurrences(bid) :
        /\ \A m \in Occurrences(bid) : scores[m] <= scores[k]
        /\ \A m \in Occurrences(bid) : scores[m] = scores[k] => k <= m

\* C14: of the occurrences of one book_id a later one replaces the kept one
\* only with a strictly higher score: the entry kept and returned is the
\* earliest of the highest-scoring occurrences, with its own metadata.
C14_TieKeepsFirst ==
    pc = "done" =>
        /\ \A i \in 1..Len(scored) :
              /\ scored[i].book = flat[FirstBest(scored[i].book_id)]
              /\ scored[i].score = scores[FirstBest(scored[i].book_id)]
        /\ \A i \in 1..Len(out) : out[i] = flat[FirstBest(out[i].book_id)]

C14_Witness ==
    /\ pc = "done"
    /\ \E i \in 1..Len(out) :
          \E k, m \in Occurrences(out[i].book_id) :
              /\ k < m
              /\ scores[k] = scores[m]
              /\ flat[k] # flat[m]
              /\ out[i] = flat[k]

\* the number of pool entries that come from the queries before query i
RECURSIVE Offset(_)
Offset(i) == IF i <= 1 THEN 0 ELSE Offset(i - 1) + Len(results[i - 1])

\* C15: whatever the order in which the queries complete, the pool is the
\* results of the queries laid end to end in submission order (genres in
\* profile order, then authors in profile order), and the returned list is
\* the ranking of that pool.
C15_SubmissionOrder ==
    pc \in {"rated", "done"} =>
        /\ (top_genres # <<>> \/ top_authors # <<>>) =>
              /\ Len(tasks) = Len(top_genres) + Len(top_authors)
              /\ \A i \in 1..Len(top_genres) : tasks[i] = GenreQuery(top_genres[i])
              /\ \A j \in 1..Len(top_authors) :
                    tasks[Len(top_genres) + j] = AuthorQuery(top_authors[j])
        /\ Len(flat) = Offset(Len(tasks) + 1)
        /\ \A i \in 1..Len(tasks) :
              \A k \in 1..Len(results[i]) : flat[Offset(i) + k] = results[i][k]
        /\ pc = "done" =>
              out = TopBooks(ScoreAll(flat, top_genres, top_authors, rated_ids), limit)

C15_Witness ==
    /\ pc = "done"
    /\ completed = <<2, 1>>
    /\ results[1] # <<>>
    /\ results[2] # <<>>
    /\ results[1] # results[2]
    /\ top_genres # <<>>
    /\ Len(out) = 2

\* the reset requests with token t that changed a password
ChangedBy(t) == {r \in Resetters : rst[r].changed /\ rst[r].token = t}

\* C16: a token authorizes at most one successful reset: at most one request
\* with a token changes the password, under any interleaving; a request with
\* a token that begins after a request with that token has succeeded is
\* rejected; a token issued for an unknown email changes no password.
C16_TokenSingleUse ==
    /\ \A t \in 1..Len(minted) : Cardinality(ChangedBy(t)) <= 1
    /\ \A r \in Resetters : rst[r].after # {} => rst[r].pc = "rejected"
    /\ \A r \in Resetters : rst[r].changed => minted[rst[r].token] # None

====
